---- MODULE Spec2Model ----
(***************************************************************************)
(* MerkleList / MerkleListIterator of src/lib/provable-types/merkle-list.ts *)
(* as a state machine.  A list is a commitment `hash` (a field element)     *)
(* and a reference `data` to an Unconstrained cell that holds the array of  *)
(* nodes; the cells live in `heap`, so that two objects holding the same    *)
(* Unconstrained object see each other's in-place updates.                  *)
(* The model follows the concrete (prover / out-of-circuit) execution, in   *)
(* which Provable.witness and updateAsProver callbacks run.                 *)
(***************************************************************************)
EXTENDS Integers, Sequences, FiniteSets, TLC

VARIABLES heap,    \* Unconstrained<WithHash<T>[]> objects: cell id -> array of nodes
          lists,   \* the MerkleList instances, in order of creation
          iters,   \* the MerkleListIterator instances, in order of creation
          last,    \* the last call: its name, receiver, arguments, result, pre-state
          input,   \* the array given to from() at construction
          trace,   \* the recorded pop() and next() calls so far: name, result, success
          ref      \* the reference stack of the elements: now, and before the last call

vars == <<heap, lists, iters, last, input, trace, ref>>

(***************************** bounds ***************************************)
MaxLen == 3        \* longest data array the list machine grows
NumValues == 2     \* element values 0 .. NumValues-1 of the list machine
MaxCloneLen == 2   \* longest data array in the list-and-clone machine
MaxIterLen == 2    \* longest data array in the list-and-iterator machines
MaxAdvLen == 1     \* longest record the prover substitutes for data
MaxPastEnd == 2    \* calls of next() made after the end of the record is reached
MaxArray == 3      \* longest array given to from() in the construction specs
NumArrayValues == 5 \* element values 0 .. NumArrayValues-1 given to from()

NumPairValues == 1 \* element values 1 .. NumPairValues of the two-instance machines

Values == 0 .. (NumValues - 1)
PairValues == 1 .. NumPairValues
ArrayValues == 0 .. (NumArrayValues - 1)

RECURSIVE SeqsUpTo(_, _)
SeqsUpTo(S, n) ==
    IF n = 0 THEN {<<>>}
    ELSE LET shorter == SeqsUpTo(S, n - 1)
         IN  shorter \cup {Append(s, x) : s \in {t \in shorter : Len(t) = n - 1}, x \in S}

(************************ field elements and hashing ************************)
\* const emptyHash = Field(0)
emptyHash == 0

\* type.empty() of the element type (Field): the canonical placeholder
innerProvable_empty == 0

Max3(a, b, c) == CHOOSE x \in {a, b, c} : \A y \in {a, b, c} : x >= y

\* Poseidon.hashWithPrefix(prefix, fields): the external hash primitive, which the
\* design assumes collision resistant.  Modelled as an injective numbering of the
\* pairs <<hash, value>> whose results are never 0 and never a multiple of HashBase.
HashBase == Max3(NumValues, NumPairValues + 1, NumArrayValues) + 1
Poseidon_hashWithPrefix(fields) == fields[1] * HashBase + fields[2] + 1

\* a non-default third argument of create(): a field element that is no hash image
customEmptyHash == HashBase

\* packToFields(provable.toInput(value)) for the element type Field: one field element
packToFields(value) == <<value>>

\* merkleListHash(provable, prefix)(hash, value)
merkleListHash(hash, value) == Poseidon_hashWithPrefix(<<hash>> \o packToFields(value))

\* this.nextHash(hash, value): the type's _nextHash, by default merkleListHash(type)
nextHash(hash, value) == merkleListHash(hash, value)

\* type WithHash<T> = { previousHash: Field; element: T }
WithHash(previousHash, element) == [previousHash |-> previousHash, element |-> element]

\* toConstant(type, node): the same node with constant fields
toConstant(node) == WithHash(node.previousHash, node.element)

\* Provable.if(condition, x, y)
ProvableIf(condition, x, y) == IF condition THEN x ELSE y

RECURSIVE withHashesLoop(_, _, _, _)
withHashesLoop(data, i, arrayWithHashes, currentHash) ==
    IF i < 1 THEN [data |-> arrayWithHashes, hash |-> currentHash]
    ELSE withHashesLoop(data, i - 1,
                        [arrayWithHashes EXCEPT ![i] = WithHash(currentHash, data[i])],
                        nextHash(currentHash, data[i]))

RECURSIVE Reverse(_)
Reverse(s) == IF s = <<>> THEN <<>> ELSE Append(Reverse(Tail(s)), Head(s))

\* mutant: the chain is built from the first array element up to the last
withHashes_reversed(data, emptyHash_) ==
    withHashesLoop(Reverse(data), Len(data),
                   [k \in 1 .. Len(data) |-> WithHash(emptyHash_, innerProvable_empty)],
                   emptyHash_)

\* mutant: the running hash is not threaded into the nodes
withHashes_flat(data, emptyHash_) ==
    [data |-> [k \in 1 .. Len(data) |-> WithHash(emptyHash_, data[k])],
     hash |-> withHashesLoop(data, Len(data),
                             [k \in 1 .. Len(data) |-> WithHash(emptyHash_, innerProvable_empty)],
                             emptyHash_).hash]

\* withHashes(data, nextHash, emptyHash): nodes and commitment, built from the last
\* array element down to the first
withHashes(data, emptyHash_) ==
    withHashesLoop(data, Len(data),
                   [k \in 1 .. Len(data) |-> WithHash(emptyHash_, innerProvable_empty)],
                   emptyHash_)

(****************************** memory **************************************)
Mem == [heap |-> heap, lists |-> lists, iters |-> iters]

\* the result of a call: the memory after it, the value returned, whether every
\* assertion held (a failed assertion throws, and the call's later steps do not run)
Result(m, ret, ok) == [m |-> m, ret |-> ret, ok |-> ok]

\* Unconstrained.from(value) / Unconstrained.witness(() => value): a new object
NewCell(m) == Len(m.heap) + 1
Alloc(m, value) == [m EXCEPT !.heap = Append(@, value)]

(****************************** MerkleList **********************************)
\* static empty(): new this({ hash: emptyHash_, data: Unconstrained.from([]) })
\* static from(array): withHashes, then new this({ data: Unconstrained.witness(..), hash })
\* mutant: from() commits to the array but leaves the record empty
MerkleList_from_hashOnly(m, array, emptyHash_) ==
    LET wh == withHashes(array, emptyHash_)
        m1 == Alloc(m, <<>>)
    IN  [m1 EXCEPT !.lists = Append(@, [hash |-> wh.hash, data |-> NewCell(m),
                                         emptyHash |-> emptyHash_])]

MerkleList_from(m, array, emptyHash_) ==
    LET wh == withHashes(array, emptyHash_)
        m1 == Alloc(m, [k \in 1 .. Len(wh.data) |-> toConstant(wh.data[k])])
    IN  [m1 EXCEPT !.lists = Append(@, [hash |-> wh.hash, data |-> NewCell(m),
                                         emptyHash |-> emptyHash_])]

\* static empty(): new this({ hash: emptyHash_, data: Unconstrained.from([]) })
MerkleList_empty(m, emptyHash_) ==
    LET m1 == Alloc(m, <<>>)
    IN  [m1 EXCEPT !.lists = Append(@, [hash |-> emptyHash_, data |-> NewCell(m),
                                         emptyHash |-> emptyHash_])]

\* isEmpty(): this.hash.equals(this.Constructor.emptyHash)
isEmpty(m, i) == m.lists[i].hash = m.lists[i].emptyHash

\* mutant: the new node goes to the end of data
push_atEnd(m, i, element) ==
    LET previousHash == m.lists[i].hash
    IN  Result([m EXCEPT !.lists[i].hash = nextHash(previousHash, element),
                         !.heap[m.lists[i].data] =
                             @ \o <<toConstant(WithHash(previousHash, element))>>],
               innerProvable_empty, TRUE)

\* push(element)
push(m, i, element) ==
    LET previousHash == m.lists[i].hash
    IN  Result([m EXCEPT !.lists[i].hash = nextHash(previousHash, element),
                         !.heap[m.lists[i].data] =
                             <<toConstant(WithHash(previousHash, element))>> \o @],
               innerProvable_empty, TRUE)

\* mutant: data is updated whatever the condition
pushIf_dataAlways(m, i, condition, element) ==
    LET previousHash == m.lists[i].hash
    IN  Result([m EXCEPT !.lists[i].hash =
                             ProvableIf(condition, nextHash(previousHash, element), previousHash),
                         !.heap[m.lists[i].data] =
                             <<toConstant(WithHash(previousHash, element))>> \o @],
               innerProvable_empty, TRUE)

\* pushIf(condition, element)
pushIf(m, i, condition, element) ==
    LET previousHash == m.lists[i].hash
    IN  Result([m EXCEPT !.lists[i].hash =
                             ProvableIf(condition, nextHash(previousHash, element), previousHash),
                         !.heap[m.lists[i].data] =
                             IF condition
                             THEN <<toConstant(WithHash(previousHash, element))>> \o @
                             ELSE @],
               innerProvable_empty, TRUE)

\* popWitness(): takes the first node off data (or the empty node), writes the rest back
popWitness(m, i) ==
    LET data == m.heap[m.lists[i].data]
        head == IF data # <<>> THEN Head(data)
                ELSE WithHash(m.lists[i].emptyHash, innerProvable_empty)
        rest == IF data # <<>> THEN Tail(data) ELSE <<>>
    IN  [m |-> [m EXCEPT !.heap[m.lists[i].data] = rest], node |-> head]

\* mutant: popExn tolerates the empty list as pop does
popExn_tolerant(m, i) ==
    LET w == popWitness(m, i)
        previousHash == w.node.previousHash
        element == w.node.element
        isEmpty_ == isEmpty(w.m, i)
        currentHash == ProvableIf(isEmpty_, w.m.lists[i].emptyHash,
                                  nextHash(previousHash, element))
    IN  IF w.m.lists[i].hash # currentHash
        THEN Result(w.m, innerProvable_empty, FALSE)
        ELSE Result([w.m EXCEPT !.lists[i].hash = previousHash], element, TRUE)

\* mutant: popExn checks the witnessed node but keeps the old hash
popExn_keepsHash(m, i) ==
    LET w == popWitness(m, i)
        previousHash == w.node.previousHash
        element == w.node.element
        currentHash == nextHash(previousHash, element)
    IN  IF w.m.lists[i].hash # currentHash
        THEN Result(w.m, innerProvable_empty, FALSE)
        ELSE Result(w.m, element, TRUE)

\* popExn()
popExn(m, i) ==
    LET w == popWitness(m, i)
        previousHash == w.node.previousHash
        element == w.node.element
        currentHash == nextHash(previousHash, element)
    IN  IF w.m.lists[i].hash # currentHash
        THEN Result(w.m, innerProvable_empty, FALSE)
        ELSE Result([w.m EXCEPT !.lists[i].hash = previousHash], element, TRUE)

\* mutant: pop takes the witnessed node without asserting it against the hash
pop_unchecked(m, i) ==
    LET w == popWitness(m, i)
        isEmpty_ == isEmpty(w.m, i)
        emptyHash_ == w.m.lists[i].emptyHash
    IN  Result([w.m EXCEPT !.lists[i].hash = ProvableIf(isEmpty_, emptyHash_, w.node.previousHash)],
               ProvableIf(isEmpty_, innerProvable_empty, w.node.element), TRUE)

\* mutant: pop asserts the hash without the empty case
pop_strict(m, i) ==
    LET w == popWitness(m, i)
        previousHash == w.node.previousHash
        element == w.node.element
        isEmpty_ == isEmpty(w.m, i)
        emptyHash_ == w.m.lists[i].emptyHash
        currentHash == nextHash(previousHash, element)
    IN  IF w.m.lists[i].hash # currentHash
        THEN Result(w.m, innerProvable_empty, FALSE)
        ELSE Result([w.m EXCEPT !.lists[i].hash = ProvableIf(isEmpty_, emptyHash_, previousHash)],
                    ProvableIf(isEmpty_, innerProvable_empty, element), TRUE)

\* pop()
pop(m, i) ==
    LET w == popWitness(m, i)
        previousHash == w.node.previousHash
        element == w.node.element
        isEmpty_ == isEmpty(w.m, i)
        emptyHash_ == w.m.lists[i].emptyHash
        currentHash == ProvableIf(isEmpty_, emptyHash_, nextHash(previousHash, element))
    IN  IF w.m.lists[i].hash # currentHash
        THEN Result(w.m, innerProvable_empty, FALSE)
        ELSE Result([w.m EXCEPT !.lists[i].hash = ProvableIf(isEmpty_, emptyHash_, previousHash)],
                    ProvableIf(isEmpty_, innerProvable_empty, element), TRUE)

\* mutant: the popped node is put back whatever the condition
popIf_reinsertAlways(m, i, condition) ==
    LET originalHash == m.lists[i].hash
        r == pop(m, i)
    IN  IF ~r.ok THEN r
        ELSE LET node == WithHash(r.m.lists[i].hash, r.ret)
                 m2 == [r.m EXCEPT !.heap[m.lists[i].data] = <<toConstant(node)>> \o @]
             IN  Result([m2 EXCEPT !.lists[i].hash =
                                       ProvableIf(condition, m2.lists[i].hash, originalHash)],
                        r.ret, TRUE)

\* popIf(condition)
popIf(m, i, condition) ==
    LET originalHash == m.lists[i].hash
        r == pop(m, i)
    IN  IF ~r.ok THEN r
        ELSE LET node == WithHash(r.m.lists[i].hash, r.ret)
                 m2 == [r.m EXCEPT !.heap[m.lists[i].data] =
                                       IF condition THEN @ ELSE <<toConstant(node)>> \o @]
             IN  Result([m2 EXCEPT !.lists[i].hash =
                                       ProvableIf(condition, m2.lists[i].hash, originalHash)],
                        r.ret, TRUE)

\* mutant: the clone holds the source's own data object
clone_shared(m, i) ==
    Result([m EXCEPT !.lists = Append(@, m.lists[i])], innerProvable_empty, TRUE)

\* clone(): Unconstrained.witness(() => [...this.data.get()]), same hash
clone(m, i) ==
    LET m1 == Alloc(m, m.heap[m.lists[i].data])
    IN  Result([m1 EXCEPT !.lists = Append(@, [m.lists[i] EXCEPT !.data = NewCell(m)])],
               innerProvable_empty, TRUE)

(*************************** MerkleListIterator ******************************)
\* The iterator's currentIndex is an Unconstrained<number> of its own: startIterating
\* makes it with Unconstrained.from(0) and clone() with Unconstrained.witness, so it is
\* never shared and is kept in the iterator's record.

\* static startIterating({ data, hash }): the iterator holds the very `data` object given
Iterator_startIterating(m, data, hash, emptyHash_) ==
    [m EXCEPT !.iters = Append(@, [hash |-> hash, data |-> data, currentHash |-> hash,
                                    currentIndex |-> 0, emptyHash |-> emptyHash_])]

\* static createFromList(merkleList): this.create(innerProvable, merkleList._nextHash);
\* create's third parameter is left to its default, emptyHash_ = emptyHash
createFromList_emptyHash(listEmptyHash) == emptyHash

\* MerkleList.startIterating(): MerkleListIterator.createFromList(..).startIterating(this)
startIterating(m, i) ==
    Result(Iterator_startIterating(m, m.lists[i].data, m.lists[i].hash,
                                   createFromList_emptyHash(m.lists[i].emptyHash)),
           innerProvable_empty, TRUE)

\* static from(array) of MerkleListIterator.create(type, nextHash, emptyHash_)
Iterator_from(m, array, emptyHash_) ==
    LET wh == withHashes(array, emptyHash_)
        m1 == Alloc(m, [k \in 1 .. Len(wh.data) |-> toConstant(wh.data[k])])
    IN  Result(Iterator_startIterating(m1, NewCell(m), wh.hash, emptyHash_),
               innerProvable_empty, TRUE)

\* mutant: assertAtStart only asserts that the iterator is not at the end
assertAtStart_notAtEnd(m, j) ==
    Result(m, innerProvable_empty, m.iters[j].currentHash # m.iters[j].emptyHash)

\* assertAtStart(): this.currentHash.assertEquals(this.hash)
assertAtStart(m, j) ==
    Result(m, innerProvable_empty, m.iters[j].currentHash = m.iters[j].hash)

\* mutant: isAtEnd compares with the default sentinel, not with the type's own
isAtEnd_defaultSentinel(m, j) == m.iters[j].currentHash = emptyHash

\* isAtEnd(): this.currentHash.equals(this.Constructor.emptyHash)
isAtEnd(m, j) == m.iters[j].currentHash = m.iters[j].emptyHash

\* mutant: jumpToEnd moves the cursor only and keeps currentHash
jumpToEnd_indexOnly(m, j) ==
    Result([m EXCEPT !.iters[j].currentIndex = Len(m.heap[m.iters[j].data])],
           innerProvable_empty, TRUE)

\* jumpToEnd()
jumpToEnd(m, j) ==
    Result([m EXCEPT !.iters[j].currentIndex = Len(m.heap[m.iters[j].data]),
                     !.iters[j].currentHash = m.iters[j].emptyHash],
           innerProvable_empty, TRUE)

\* jumpToEndIf(condition)
jumpToEndIf(m, j, condition) ==
    Result([m EXCEPT !.iters[j].currentIndex =
                         IF condition THEN Len(m.heap[m.iters[j].data]) ELSE @,
                     !.iters[j].currentHash =
                         ProvableIf(condition, m.iters[j].emptyHash, @)],
           innerProvable_empty, TRUE)

Min(a, b) == IF a < b THEN a ELSE b

\* mutant: next advances the cursor without clamping it to data.length
next_unclamped(m, j) ==
    LET it == m.iters[j]
        data == m.heap[it.data]
        node == IF it.currentIndex + 1 <= Len(data) THEN data[it.currentIndex + 1]
                ELSE WithHash(it.emptyHash, innerProvable_empty)
        isDummy == isAtEnd(m, j)
        requiredHash == ProvableIf(isDummy, it.emptyHash,
                                   nextHash(node.previousHash, node.element))
    IN  IF it.currentHash # requiredHash
        THEN Result(m, innerProvable_empty, FALSE)
        ELSE Result([m EXCEPT !.iters[j].currentIndex = @ + 1,
                              !.iters[j].currentHash =
                                  ProvableIf(isDummy, it.emptyHash, node.previousHash)],
                    ProvableIf(isDummy, innerProvable_empty, node.element), TRUE)

\* mutant: next removes the node it visits from the record, as pop does
next_consuming(m, j) ==
    LET it == m.iters[j]
        data == m.heap[it.data]
        node == IF data # <<>> THEN Head(data)
                ELSE WithHash(it.emptyHash, innerProvable_empty)
        isDummy == isAtEnd(m, j)
        requiredHash == ProvableIf(isDummy, it.emptyHash,
                                   nextHash(node.previousHash, node.element))
    IN  IF it.currentHash # requiredHash
        THEN Result(m, innerProvable_empty, FALSE)
        ELSE Result([m EXCEPT !.heap[it.data] = IF data # <<>> THEN Tail(data) ELSE <<>>,
                              !.iters[j].currentHash =
                                  ProvableIf(isDummy, it.emptyHash, node.previousHash)],
                    ProvableIf(isDummy, innerProvable_empty, node.element), TRUE)

\* next(): data[currentIndex] (JavaScript counts from 0), or the empty node past the end
next(m, j) ==
    LET it == m.iters[j]
        data == m.heap[it.data]
        node == IF it.currentIndex + 1 <= Len(data) THEN data[it.currentIndex + 1]
                ELSE WithHash(it.emptyHash, innerProvable_empty)
        previousHash == node.previousHash
        element == node.element
        isDummy == isAtEnd(m, j)
        emptyHash_ == it.emptyHash
        correctHash == nextHash(previousHash, element)
        requiredHash == ProvableIf(isDummy, emptyHash_, correctHash)
    IN  IF it.currentHash # requiredHash
        THEN Result(m, innerProvable_empty, FALSE)
        ELSE Result([m EXCEPT !.iters[j].currentIndex = Min(@ + 1, Len(data)),
                              !.iters[j].currentHash =
                                  ProvableIf(isDummy, emptyHash_, previousHash)],
                    ProvableIf(isDummy, innerProvable_empty, element), TRUE)

\* mutant: the clone starts again from the beginning of the record
Iterator_clone_restart(m, j) ==
    LET m1 == Alloc(m, m.heap[m.iters[j].data])
    IN  Result([m1 EXCEPT !.iters = Append(@, [m.iters[j] EXCEPT !.data = NewCell(m),
                                                                  !.currentIndex = 0,
                                                                  !.currentHash = m.iters[j].hash])],
               innerProvable_empty, TRUE)

\* MerkleListIterator.clone(): new data and currentIndex objects, same hashes
Iterator_clone(m, j) ==
    LET m1 == Alloc(m, m.heap[m.iters[j].data])
    IN  Result([m1 EXCEPT !.iters = Append(@, [m.iters[j] EXCEPT !.data = NewCell(m)])],
               innerProvable_empty, TRUE)

(* The base classes MerkleList and MerkleListIterator: their static _nextHash,     *)
(* _emptyHash and _innerProvable are undefined until create() makes a subclass,   *)
(* and the getters nextHash, emptyHash and innerProvable assert that they are set.*)
undefined == -1
NotInitializedError == "not initialized"

\* the assertion of the getters: the configuration of the instance's class is set
initialized(emptyHash_) == emptyHash_ # undefined

NotInitialized(m) == Result(m, NotInitializedError, FALSE)

\* isEmpty(): this.Constructor.emptyHash is its first step
Base_isEmpty(m, i) ==
    IF initialized(m.lists[i].emptyHash)
    THEN Result(m, IF isEmpty(m, i) THEN 1 ELSE 0, TRUE)
    ELSE NotInitialized(m)

\* push(element): this.nextHash(..) comes before the assignment to hash
Base_push(m, i, element) ==
    IF initialized(m.lists[i].emptyHash) THEN push(m, i, element) ELSE NotInitialized(m)

\* pushIf(condition, element): this.nextHash(..) is an argument of Provable.if
Base_pushIf(m, i, condition, element) ==
    IF initialized(m.lists[i].emptyHash) THEN pushIf(m, i, condition, element)
    ELSE NotInitialized(m)

\* pop(): popWitness() evaluates WithHash(this.innerProvable) before its callback runs
Base_pop(m, i) ==
    IF initialized(m.lists[i].emptyHash) THEN pop(m, i) ELSE NotInitialized(m)

\* popExn(): popWitness() first, as pop()
Base_popExn(m, i) ==
    IF initialized(m.lists[i].emptyHash) THEN popExn(m, i) ELSE NotInitialized(m)

\* popIf(condition): reads hash, then this.pop()
Base_popIf(m, i, condition) ==
    IF initialized(m.lists[i].emptyHash) THEN popIf(m, i, condition) ELSE NotInitialized(m)

\* next(): Provable.witness(WithHash(this.innerProvable), ..) is its first step
Base_next(m, j) ==
    IF initialized(m.iters[j].emptyHash) THEN next(m, j) ELSE NotInitialized(m)

\* isAtEnd(): this.Constructor.emptyHash
Base_isAtEnd(m, j) ==
    IF initialized(m.iters[j].emptyHash)
    THEN Result(m, IF isAtEnd(m, j) THEN 1 ELSE 0, TRUE)
    ELSE NotInitialized(m)

\* jumpToEnd(): this.currentIndex.setTo(..data.length) runs first, and then
\* this.Constructor.emptyHash is read
Base_jumpToEnd(m, j) ==
    IF initialized(m.iters[j].emptyHash) THEN jumpToEnd(m, j)
    ELSE NotInitialized([m EXCEPT !.iters[j].currentIndex = Len(m.heap[m.iters[j].data])])

\* jumpToEndIf(condition): Provable.asProver sets currentIndex when the condition is
\* true, and then this.Constructor.emptyHash is read as an argument of Provable.if
Base_jumpToEndIf(m, j, condition) ==
    IF initialized(m.iters[j].emptyHash) THEN jumpToEndIf(m, j, condition)
    ELSE NotInitialized([m EXCEPT !.iters[j].currentIndex =
                                      IF condition THEN Len(m.heap[m.iters[j].data]) ELSE @])

(******************************* actions ************************************)
EmptyMem == [heap |-> <<>>, lists |-> <<>>, iters |-> <<>>]

\* A call of method `op` on instance `obj` with result r.  `undo` is set when the call
\* is a pop() that directly follows a push(v) on the same list: v and the memory
\* before that push.
Call(op, kind, obj, arg, cond, r) ==
    /\ heap' = r.m.heap
    /\ lists' = r.m.lists
    /\ iters' = r.m.iters
    /\ last' = [op |-> op, kind |-> kind, obj |-> obj, arg |-> arg, cond |-> cond,
                ret |-> r.ret, ok |-> r.ok, pre |-> Mem,
                undo |-> IF op = "pop" /\ last.op = "push" /\ last.obj = obj
                         THEN [push |-> TRUE, arg |-> last.arg, pre |-> last.pre]
                         ELSE [push |-> FALSE, arg |-> innerProvable_empty, pre |-> EmptyMem]]

\* a failed assertion aborts the construction: nothing runs after it
Running == last.ok

Unrecorded == UNCHANGED <<input, trace, ref>>

Recorded == /\ trace' = Append(trace, [op |-> last'.op, ret |-> last'.ret, ok |-> last'.ok])
            /\ UNCHANGED <<input, ref>>

\* the reference stack moves to s with the call
Refined(s) == /\ ref' = [stack |-> s, before |-> ref.stack]
              /\ UNCHANGED <<input, trace>>

\* the reference LIFO stack: its top is the first element
RefPush(s, v) == <<v>> \o s
RefPop(s) == IF s = <<>> THEN <<>> ELSE Tail(s)

DataOf(i) == heap[lists[i].data]

Push(i, v) ==
    /\ Running
    /\ Len(DataOf(i)) < MaxLen
    /\ Call("push", "list", i, v, TRUE, push(Mem, i, v))
    /\ Unrecorded

PushIf(i, c, v) ==
    /\ Running
    /\ Len(DataOf(i)) < MaxLen
    /\ Call("pushIf", "list", i, v, c, pushIf(Mem, i, c, v))
    /\ Unrecorded

Pop(i) ==
    /\ Running
    /\ Call("pop", "list", i, innerProvable_empty, TRUE, pop(Mem, i))
    /\ Unrecorded

PopRecorded(i) ==
    /\ Running
    /\ Call("pop", "list", i, innerProvable_empty, TRUE, pop(Mem, i))
    /\ Recorded

PopExn(i) ==
    /\ Running
    /\ Call("popExn", "list", i, innerProvable_empty, TRUE, popExn(Mem, i))
    /\ Unrecorded

PopIf(i, c) ==
    /\ Running
    /\ Call("popIf", "list", i, innerProvable_empty, c, popIf(Mem, i, c))
    /\ Unrecorded

StackIsEmpty(i) ==
    /\ Running
    /\ Call("isEmpty", "list", i, innerProvable_empty, TRUE,
            Result(Mem, IF isEmpty(Mem, i) THEN 1 ELSE 0, TRUE))
    /\ Refined(ref.stack)

StackPush(i, v) ==
    /\ Running
    /\ Len(DataOf(i)) < MaxLen
    /\ Call("push", "list", i, v, TRUE, push(Mem, i, v))
    /\ Refined(RefPush(ref.stack, v))

StackPushIf(i, c, v) ==
    /\ Running
    /\ Len(DataOf(i)) < MaxLen
    /\ Call("pushIf", "list", i, v, c, pushIf(Mem, i, c, v))
    /\ Refined(IF c THEN RefPush(ref.stack, v) ELSE ref.stack)

StackPop(i) ==
    /\ Running
    /\ Call("pop", "list", i, innerProvable_empty, TRUE, pop(Mem, i))
    /\ Refined(RefPop(ref.stack))

StackPopExn(i) ==
    /\ Running
    /\ Call("popExn", "list", i, innerProvable_empty, TRUE, popExn(Mem, i))
    /\ Refined(RefPop(ref.stack))

StackPopIf(i, c) ==
    /\ Running
    /\ Call("popIf", "list", i, innerProvable_empty, c, popIf(Mem, i, c))
    /\ Refined(IF c THEN RefPop(ref.stack) ELSE ref.stack)

Clone(i) ==
    /\ Running
    /\ Call("clone", "list", i, innerProvable_empty, TRUE, clone(Mem, i))
    /\ Unrecorded

StartIterating(i) ==
    /\ Running
    /\ Call("startIterating", "list", i, innerProvable_empty, TRUE, startIterating(Mem, i))
    /\ Unrecorded

IterNext(j) ==
    /\ Running
    /\ Call("next", "iter", j, innerProvable_empty, TRUE, next(Mem, j))
    /\ Unrecorded

IterNextRecorded(j) ==
    /\ Running
    /\ Call("next", "iter", j, innerProvable_empty, TRUE, next(Mem, j))
    /\ Recorded

\* isAtEnd() returns a Bool: the field element 1 or 0
IterIsAtEnd(j) ==
    /\ Running
    /\ Call("isAtEnd", "iter", j, innerProvable_empty, TRUE,
            Result(Mem, IF isAtEnd(Mem, j) THEN 1 ELSE 0, TRUE))
    /\ Unrecorded

IterAssertAtStart(j) ==
    /\ Running
    /\ Call("assertAtStart", "iter", j, innerProvable_empty, TRUE, assertAtStart(Mem, j))
    /\ Unrecorded

IterJumpToEnd(j) ==
    /\ Running
    /\ Call("jumpToEnd", "iter", j, innerProvable_empty, TRUE, jumpToEnd(Mem, j))
    /\ Unrecorded

IterJumpToEndIf(j, c) ==
    /\ Running
    /\ Call("jumpToEndIf", "iter", j, innerProvable_empty, c, jumpToEndIf(Mem, j, c))
    /\ Unrecorded

IterClone(j) ==
    /\ Running
    /\ Call("clone", "iter", j, innerProvable_empty, TRUE, Iterator_clone(Mem, j))
    /\ Unrecorded

\* the last call moved the iterator: next() on a real element, jumpToEnd(), jumpToEndIf(true)
Advancing ==
    /\ last.kind = "iter"
    /\ \/ last.op = "next" /\ last.ok /\ ~isAtEnd(last.pre, last.obj)
       \/ last.op = "jumpToEnd"
       \/ last.op = "jumpToEndIf" /\ last.cond

\* history: trace keeps the first call that moved the iterator
Tracked == /\ trace' = IF trace = <<>> /\ Advancing'
                       THEN <<[op |-> last'.op, ret |-> last'.ret, ok |-> last'.ok]>>
                       ELSE trace
           /\ UNCHANGED <<input, ref>>

WalkNext(j) ==
    /\ Running
    /\ Call("next", "iter", j, innerProvable_empty, TRUE, next(Mem, j))
    /\ Tracked

WalkIsAtEnd(j) ==
    /\ Running
    /\ Call("isAtEnd", "iter", j, innerProvable_empty, TRUE,
            Result(Mem, IF isAtEnd(Mem, j) THEN 1 ELSE 0, TRUE))
    /\ Tracked

WalkAssertAtStart(j) ==
    /\ Running
    /\ Call("assertAtStart", "iter", j, innerProvable_empty, TRUE, assertAtStart(Mem, j))
    /\ Tracked

WalkJumpToEnd(j) ==
    /\ Running
    /\ Call("jumpToEnd", "iter", j, innerProvable_empty, TRUE, jumpToEnd(Mem, j))
    /\ Tracked

WalkJumpToEndIf(j, c) ==
    /\ Running
    /\ Call("jumpToEndIf", "iter", j, innerProvable_empty, c, jumpToEndIf(Mem, j, c))
    /\ Tracked

\* data is Unconstrained: the prover supplies the record, any nodes at all.  It is not
\* a call of the program, and nothing of the earlier state is remembered with it.
Tamper(cell, nodes) ==
    /\ Running
    /\ last.op # "tamper"
    /\ heap' = [heap EXCEPT ![cell] = nodes]
    /\ last' = [op |-> "tamper", kind |-> "data", obj |-> cell, arg |-> innerProvable_empty,
                cond |-> TRUE, ret |-> innerProvable_empty, ok |-> TRUE, pre |-> EmptyMem,
                undo |-> [push |-> FALSE, arg |-> innerProvable_empty, pre |-> EmptyMem]]
    /\ UNCHANGED <<lists, iters, input, trace, ref>>

BaseIsEmpty(i) ==
    /\ Running
    /\ Call("isEmpty", "list", i, innerProvable_empty, TRUE, Base_isEmpty(Mem, i))
    /\ Unrecorded

BasePush(i, v) ==
    /\ Running
    /\ Call("push", "list", i, v, TRUE, Base_push(Mem, i, v))
    /\ Unrecorded

BasePushIf(i, c, v) ==
    /\ Running
    /\ Call("pushIf", "list", i, v, c, Base_pushIf(Mem, i, c, v))
    /\ Unrecorded

BasePop(i) ==
    /\ Running
    /\ Call("pop", "list", i, innerProvable_empty, TRUE, Base_pop(Mem, i))
    /\ Unrecorded

BasePopExn(i) ==
    /\ Running
    /\ Call("popExn", "list", i, innerProvable_empty, TRUE, Base_popExn(Mem, i))
    /\ Unrecorded

BasePopIf(i, c) ==
    /\ Running
    /\ Call("popIf", "list", i, innerProvable_empty, c, Base_popIf(Mem, i, c))
    /\ Unrecorded

BaseNext(j) ==
    /\ Running
    /\ Call("next", "iter", j, innerProvable_empty, TRUE, Base_next(Mem, j))
    /\ Unrecorded

BaseIsAtEnd(j) ==
    /\ Running
    /\ Call("isAtEnd", "iter", j, innerProvable_empty, TRUE, Base_isAtEnd(Mem, j))
    /\ Unrecorded

BaseJumpToEnd(j) ==
    /\ Running
    /\ Call("jumpToEnd", "iter", j, innerProvable_empty, TRUE, Base_jumpToEnd(Mem, j))
    /\ Unrecorded

BaseJumpToEndIf(j, c) ==
    /\ Running
    /\ Call("jumpToEndIf", "iter", j, innerProvable_empty, c, Base_jumpToEndIf(Mem, j, c))
    /\ Unrecorded

\* push(input[k]): the next element of the array, taken from its end backwards
BuildPush(i) ==
    /\ Running
    /\ Len(lists) = 1
    /\ Len(DataOf(i)) < Len(input)
    /\ Call("push", "list", i, input[Len(input) - Len(DataOf(i))], TRUE,
            push(Mem, i, input[Len(input) - Len(DataOf(i))]))
    /\ Unrecorded

\* from(input) on the type of list i: one more list
BuildFrom(i) ==
    /\ Running
    /\ Call("from", "list", Len(lists) + 1, innerProvable_empty, TRUE,
            Result(MerkleList_from(Mem, input, lists[i].emptyHash), innerProvable_empty, TRUE))
    /\ Unrecorded

\* empty() of a list type, and an array to build
InitEmptyWith(array, emptyHash_) ==
    /\ heap = MerkleList_empty(EmptyMem, emptyHash_).heap
    /\ lists = MerkleList_empty(EmptyMem, emptyHash_).lists
    /\ iters = MerkleList_empty(EmptyMem, emptyHash_).iters
    /\ last = [op |-> "empty", kind |-> "list", obj |-> 1, arg |-> innerProvable_empty,
               cond |-> TRUE, ret |-> innerProvable_empty, ok |-> TRUE, pre |-> EmptyMem,
               undo |-> [push |-> FALSE, arg |-> innerProvable_empty, pre |-> EmptyMem]]
    /\ input = array
    /\ trace = <<>>
    /\ ref = [stack |-> <<>>, before |-> <<>>]

InitMem(array, emptyHash_) == MerkleList_from(EmptyMem, array, emptyHash_)

InitWith(array, emptyHash_) ==
    /\ heap = InitMem(array, emptyHash_).heap
    /\ lists = InitMem(array, emptyHash_).lists
    /\ iters = InitMem(array, emptyHash_).iters
    /\ last = [op |-> "from", kind |-> "list", obj |-> 1, arg |-> innerProvable_empty,
               cond |-> TRUE, ret |-> innerProvable_empty, ok |-> TRUE, pre |-> EmptyMem,
               undo |-> [push |-> FALSE, arg |-> innerProvable_empty, pre |-> EmptyMem]]
    /\ input = array
    /\ trace = <<>>
    /\ ref = [stack |-> array, before |-> array]

\* an iterator made by from(array) of MerkleListIterator.create(type, nextHash, emptyHash_)
InitIterWith(array, emptyHash_) ==
    /\ heap = Iterator_from(EmptyMem, array, emptyHash_).m.heap
    /\ lists = Iterator_from(EmptyMem, array, emptyHash_).m.lists
    /\ iters = Iterator_from(EmptyMem, array, emptyHash_).m.iters
    /\ last = [op |-> "from", kind |-> "iter", obj |-> 1, arg |-> innerProvable_empty,
               cond |-> TRUE, ret |-> innerProvable_empty, ok |-> TRUE, pre |-> EmptyMem,
               undo |-> [push |-> FALSE, arg |-> innerProvable_empty, pre |-> EmptyMem]]
    /\ input = array
    /\ trace = <<>>
    /\ ref = [stack |-> array, before |-> array]

\* the third argument of create(): the default, or a custom sentinel
EmptyHashes == {emptyHash, customEmptyHash}

(* The list machine: one list made by empty() or from(array), then any calls of  *)
(* push, pushIf, pop, popExn, popIf on it.                                       *)
Init ==
    \E array \in SeqsUpTo(Values, MaxLen), e \in EmptyHashes : InitWith(array, e)

Next ==
    \/ \E v \in Values : Push(1, v)
    \/ \E v \in Values, c \in BOOLEAN : PushIf(1, c, v)
    \/ Pop(1)
    \/ PopExn(1)
    \/ \E c \in BOOLEAN : PopIf(1, c)

Spec == Init /\ [][Next]_vars

(* The list and its clone: as the list machine, with clone() once, and then the  *)
(* same calls on either instance.                                                *)
InitClone ==
    \E array \in SeqsUpTo(PairValues, MaxCloneLen), e \in EmptyHashes : InitWith(array, e)

NextClone ==
    \/ \E i \in 1 .. Len(lists), v \in PairValues :
           Len(DataOf(i)) < MaxCloneLen /\ Push(i, v)
    \/ \E i \in 1 .. Len(lists), v \in PairValues, c \in BOOLEAN :
           Len(DataOf(i)) < MaxCloneLen /\ PushIf(i, c, v)
    \/ \E i \in 1 .. Len(lists) : Pop(i)
    \/ \E i \in 1 .. Len(lists) : PopExn(i)
    \/ \E i \in 1 .. Len(lists), c \in BOOLEAN : PopIf(i, c)
    \/ Len(lists) = 1 /\ Clone(1)

SpecClone == InitClone /\ [][NextClone]_vars

(* Bulk construction: from(array), then pop() until the list is exhausted and    *)
(* once more, every pop recorded.                                                *)
InitFrom ==
    \E array \in SeqsUpTo(ArrayValues, MaxArray), e \in EmptyHashes : InitWith(array, e)

NextFrom == Len(trace) <= Len(input) /\ PopRecorded(1)

SpecFrom == InitFrom /\ [][NextFrom]_vars

(* The list and an iterator started on it: the list's calls go on after          *)
(* startIterating(), next to the iterator's own.                                 *)
InitIter ==
    \E array \in SeqsUpTo(PairValues, MaxIterLen), e \in EmptyHashes : InitWith(array, e)

NextIter ==
    \/ \E v \in PairValues : Len(DataOf(1)) < MaxIterLen /\ Push(1, v)
    \/ \E v \in PairValues, c \in BOOLEAN : Len(DataOf(1)) < MaxIterLen /\ PushIf(1, c, v)
    \/ Pop(1)
    \/ \E c \in BOOLEAN : PopIf(1, c)
    \/ Len(iters) = 0 /\ StartIterating(1)
    \/ \E j \in 1 .. Len(iters) : IterNext(j)
    \/ \E j \in 1 .. Len(iters) : IterIsAtEnd(j)
    \/ \E j \in 1 .. Len(iters) : IterAssertAtStart(j)
    \/ \E j \in 1 .. Len(iters) : IterJumpToEnd(j)
    \/ \E j \in 1 .. Len(iters), c \in BOOLEAN : IterJumpToEndIf(j, c)

SpecIter == InitIter /\ [][NextIter]_vars

(* Iterating against popping: any list, then startIterating() and clone() on it, *)
(* then next() on the iterator and pop() on the clone, all recorded.             *)
NextEquiv ==
    \/ \E v \in Values : Len(iters) = 0 /\ Len(DataOf(1)) < MaxIterLen /\ Push(1, v)
    \/ Len(iters) = 0 /\ Pop(1)
    \/ \E c \in BOOLEAN : Len(iters) = 0 /\ PopIf(1, c)
    \/ Len(iters) = 0 /\ StartIterating(1)
    \/ Len(iters) = 1 /\ Len(lists) = 1 /\ Clone(1)
    \/ /\ Len(lists) = 2
       /\ Cardinality({k \in 1 .. Len(trace) : trace[k].op = "next"}) <= Len(DataOf(1))
       /\ IterNextRecorded(1)
    \/ /\ Len(lists) = 2
       /\ Cardinality({k \in 1 .. Len(trace) : trace[k].op = "pop"}) <= Len(DataOf(1))
       /\ PopRecorded(2)

InitEquiv ==
    \E array \in SeqsUpTo(Values, MaxIterLen), e \in EmptyHashes : InitWith(array, e)

SpecEquiv == InitEquiv /\ [][NextEquiv]_vars

(* One iterator, made by from(array) or by startIterating() on a list built with   *)
(* from and push, and then walked; the list is not changed once it is iterated.   *)
InitWalk ==
    \E array \in SeqsUpTo(PairValues, MaxIterLen), e \in EmptyHashes :
        \/ InitWith(array, e)
        \/ InitIterWith(array, e)

NextWalk ==
    \/ \E v \in PairValues :
           Len(lists) = 1 /\ Len(iters) = 0 /\ Len(DataOf(1)) < MaxIterLen /\ Push(1, v)
    \/ Len(lists) = 1 /\ Len(iters) = 0 /\ StartIterating(1)
    \/ Len(iters) = 1 /\ WalkNext(1)
    \/ Len(iters) = 1 /\ WalkIsAtEnd(1)
    \/ Len(iters) = 1 /\ WalkAssertAtStart(1)
    \/ Len(iters) = 1 /\ WalkJumpToEnd(1)
    \/ \E c \in BOOLEAN : Len(iters) = 1 /\ WalkJumpToEndIf(1, c)

SpecWalk == InitWalk /\ [][NextWalk]_vars

(* An untrusted record: a list, or an iterator made by from(array), whose data is  *)
(* replaced by arbitrary nodes before it is read.                                  *)
AdvHashes == EmptyHashes \cup {nextHash(h, v) : h \in EmptyHashes, v \in PairValues}
AdvElements == {innerProvable_empty} \cup PairValues
AdvNodes == {WithHash(h, v) : h \in AdvHashes, v \in AdvElements}

InitAdv ==
    \E array \in SeqsUpTo(PairValues, MaxIterLen), e \in EmptyHashes :
        \/ InitWith(array, e)
        \/ InitIterWith(array, e)

NextAdv ==
    \/ \E nodes \in SeqsUpTo(AdvNodes, MaxAdvLen) : Tamper(1, nodes)
    \/ Len(lists) = 1 /\ Pop(1)
    \/ Len(lists) = 1 /\ PopExn(1)
    \/ Len(iters) = 1 /\ IterNext(1)

SpecAdv == InitAdv /\ [][NextAdv]_vars

(* Instances of the base classes, made by new MerkleList({hash, data}) and         *)
(* new MerkleListIterator({hash, data, currentHash, currentIndex}) from any values.*)
InitBase ==
    \E h \in AdvHashes, d \in SeqsUpTo(AdvNodes, MaxAdvLen) :
        \E k \in 0 .. Len(d) :
            /\ heap = <<d, d>>
            /\ lists = <<[hash |-> h, data |-> 1, emptyHash |-> undefined]>>
            /\ iters = <<[hash |-> h, data |-> 2, currentHash |-> h, currentIndex |-> k,
                          emptyHash |-> undefined]>>
            /\ last = [op |-> "new", kind |-> "list", obj |-> 1, arg |-> innerProvable_empty,
                       cond |-> TRUE, ret |-> innerProvable_empty, ok |-> TRUE,
                       pre |-> EmptyMem,
                       undo |-> [push |-> FALSE, arg |-> innerProvable_empty,
                                 pre |-> EmptyMem]]
            /\ input = <<>>
            /\ trace = <<>>
            /\ ref = [stack |-> <<>>, before |-> <<>>]

NextBase ==
    \/ BaseIsEmpty(1)
    \/ \E v \in PairValues : BasePush(1, v)
    \/ \E v \in PairValues, c \in BOOLEAN : BasePushIf(1, c, v)
    \/ BasePop(1)
    \/ BasePopExn(1)
    \/ \E c \in BOOLEAN : BasePopIf(1, c)
    \/ BaseNext(1)
    \/ BaseIsAtEnd(1)
    \/ BaseJumpToEnd(1)
    \/ \E c \in BOOLEAN : BaseJumpToEndIf(1, c)

SpecBase == InitBase /\ [][NextBase]_vars

(* An iterator and its clone: one iterator, walked, cloned once at any point, and  *)
(* then both walked.                                                               *)
InitIterClone ==
    \E array \in SeqsUpTo(PairValues, MaxIterLen), e \in EmptyHashes :
        \/ InitWith(array, e)
        \/ InitIterWith(array, e)

NextIterClone ==
    \/ Len(lists) = 1 /\ Len(iters) = 0 /\ StartIterating(1)
    \/ Len(iters) = 1 /\ IterClone(1)
    \/ \E j \in 1 .. Len(iters) : IterNext(j)
    \/ \E j \in 1 .. Len(iters) : IterJumpToEnd(j)
    \/ \E j \in 1 .. Len(iters), c \in BOOLEAN : IterJumpToEndIf(j, c)

SpecIterClone == InitIterClone /\ [][NextIterClone]_vars

(* The list machine beside a reference stack: the same calls, each also made on   *)
(* the reference stack.                                                            *)
NextStack ==
    \/ StackIsEmpty(1)
    \/ \E v \in Values : StackPush(1, v)
    \/ \E v \in Values, c \in BOOLEAN : StackPushIf(1, c, v)
    \/ StackPop(1)
    \/ StackPopExn(1)
    \/ \E c \in BOOLEAN : StackPopIf(1, c)

SpecStack == Init /\ [][NextStack]_vars

(* Walking to the end and past it: an iterator made by from(array), and then      *)
(* next(), each call recorded, and isAtEnd().                                      *)
InitEnd ==
    \E array \in SeqsUpTo(ArrayValues, MaxArray), e \in EmptyHashes : InitIterWith(array, e)

NextEnd ==
    \/ Len(trace) < Len(input) + MaxPastEnd /\ IterNextRecorded(1)
    \/ IterIsAtEnd(1)

SpecEnd == InitEnd /\ [][NextEnd]_vars

(* Building a list both ways: empty() and the pushes of the array's elements from *)
(* the last to the first, and then from(array), twice.                             *)
InitBuild ==
    \E array \in SeqsUpTo(ArrayValues, MaxArray), e \in EmptyHashes : InitEmptyWith(array, e)

NextBuild ==
    \/ BuildPush(1)
    \/ Len(DataOf(1)) = Len(input) /\ Len(lists) < 3 /\ BuildFrom(1)

SpecBuild == InitBuild /\ [][NextBuild]_vars

(******************************* properties *********************************)
\* the values returned by the recorded calls, in order
Rets(calls) == [k \in 1 .. Len(calls) |-> calls[k].ret]
IsNext(call) == call.op = "next"
IsPop(call) == call.op = "pop"
NextCalls == SelectSeq(trace, IsNext)
PopCalls == SelectSeq(trace, IsPop)

\* the commitment of a sequence: chained from its last element back to its first
RECURSIVE ChainHash(_, _)
ChainHash(s, e) == IF s = <<>> THEN e ELSE nextHash(ChainHash(Tail(s), e), Head(s))

\* the receiver of the last call, before the call
PreList == last.pre.lists[last.obj]
PreData == last.pre.heap[PreList.data]

\* C1 as stated: from([v0..v(n-1)]) followed by n calls of pop() returns
\* v(n-1), ..., v0 in that order, and the commitment after the n-th pop is EMPTY_HASH.
C1_RoundTripAsStated ==
    Len(trace) = Len(input) =>
        /\ Rets(trace) = Reverse(input)
        /\ lists[1].hash = lists[1].emptyHash

\* C1 amended: from([v0..v(n-1)]) followed by n calls of pop() returns v0, v1, ...,
\* v(n-1) in that order (the array's own order), no pop fails, and the commitment
\* after the n-th pop is EMPTY_HASH.
C1_RoundTrip ==
    /\ \A k \in 1 .. Len(trace) : trace[k].ok
    /\ Len(trace) <= Len(input) => Rets(trace) = SubSeq(input, 1, Len(trace))
    /\ Len(trace) = Len(input) => lists[1].hash = lists[1].emptyHash

C1_Witness ==
    /\ Len(input) = MaxArray
    /\ Len(trace) = Len(input)
    /\ input[1] # input[Len(input)]

\* C2: from(array) chains right to left: node i holds array[i] and, as previousHash,
\* the chain hash of the elements after it (EMPTY_HASH for the last), and hash is
\* nextHash(previousHash of the first node, array[0]).  For from([3,1,4]) with
\* h2 = nextHash(0,4), h1 = nextHash(h2,1), h0 = nextHash(h1,3): the commitment is h0
\* and three pops return 3, 1, 4, leaving h1, h2, 0.
C2_FromChainsRightToLeft ==
    LET n == Len(input)
        e == lists[1].emptyHash
        h2 == nextHash(emptyHash, 4)
        h1 == nextHash(h2, 1)
        h0 == nextHash(h1, 3)
    IN  /\ trace = <<>> =>
            /\ Len(DataOf(1)) = n
            /\ \A k \in 1 .. n :
                   DataOf(1)[k] = WithHash(ChainHash(SubSeq(input, k + 1, n), e), input[k])
            /\ n > 0 => lists[1].hash = nextHash(DataOf(1)[1].previousHash, input[1])
            /\ n = 0 => lists[1].hash = e
        /\ (input = <<3, 1, 4>> /\ e = emptyHash) =>
            /\ Len(trace) = 0 => lists[1].hash = h0
            /\ Len(trace) = 1 => Rets(trace) = <<3>> /\ lists[1].hash = h1
            /\ Len(trace) = 2 => Rets(trace) = <<3, 1>> /\ lists[1].hash = h2
            /\ Len(trace) = 3 => Rets(trace) = <<3, 1, 4>> /\ lists[1].hash = 0

C2_Witness ==
    /\ input = <<3, 1, 4>>
    /\ lists[1].emptyHash = emptyHash
    /\ Len(trace) = 3

\* C3: push(v) directly followed by pop() on the same list returns v and leaves
\* hash and data exactly as they were before the push.
C3_PushPopInverse ==
    (last.op = "pop" /\ last.undo.push) =>
        /\ last.ok
        /\ last.ret = last.undo.arg
        /\ Mem = last.undo.pre

C3_Witness ==
    /\ last.op = "pop"
    /\ last.undo.push
    /\ Len(DataOf(1)) >= 1

\* C4: L.startIterating() followed by repeated next() yields the same values in the
\* same order, and the same behaviour at the end (the empty placeholder, no failed
\* assertion), as repeated pop() on a clone of L, whatever the type's empty sentinel.
C4_IteratorListEquivalence ==
    /\ \A k \in 1 .. Len(trace) : trace[k].ok
    /\ \A k \in 1 .. Min(Len(NextCalls), Len(PopCalls)) :
           NextCalls[k].ret = PopCalls[k].ret

\* C5: after it = L.startIterating(), no push, pushIf, pop or popIf on L changes the
\* record the iterator reads or makes it.next() fail (here for the default sentinel),
\* and no call on the iterator changes L.hash or L.data.
C5_ListAndIteratorIsolated ==
    /\ (last.kind = "list" /\ Len(last.pre.iters) > 0) =>
           \A j \in 1 .. Len(iters) :
               heap[iters[j].data] = last.pre.heap[last.pre.iters[j].data]
    /\ (last.op = "next" /\ lists[1].emptyHash = emptyHash) => last.ok
    /\ last.kind = "iter" =>
           /\ lists = last.pre.lists
           /\ DataOf(1) = last.pre.heap[last.pre.lists[1].data]

\* C6: popIf(false) leaves hash and data as they were, on every list, the empty one
\* included (there the record stays empty).
C6_PopIfFalseNoOp ==
    (last.op = "popIf" /\ ~last.cond) =>
        /\ last.ok
        /\ lists = last.pre.lists
        /\ heap = last.pre.heap

\* C7: popIf(true) returns the element and leaves the hash and data that pop() gives
\* from the same state, the empty list included.
C7_PopIfTrueIsPop ==
    (last.op = "popIf" /\ last.cond) =>
        Result(Mem, last.ret, last.ok) = pop(last.pre, last.obj)

C7_Witness ==
    /\ last.op = "popIf"
    /\ last.cond
    /\ PreData # <<>>
    /\ Len(DataOf(1)) = Len(PreData) - 1

\* C8: pushIf(false, v) leaves hash and data unchanged; pushIf(true, v) gives exactly
\* the hash and data that push(v) gives from the same state.
C8_PushIf ==
    last.op = "pushIf" =>
        /\ last.ok
        /\ last.cond => Mem = push(last.pre, last.obj, last.arg).m
        /\ ~last.cond => Mem = last.pre

C8_Witness ==
    /\ last.op = "pushIf"
    /\ ~last.cond
    /\ DataOf(1) # <<>>

\* C9: on an empty list (hash = EMPTY_HASH, data = []) pop() returns the empty
\* element, leaves hash at EMPTY_HASH and data empty, and does not fail; popExn() on
\* the same list fails its assertion.
C9_EmptySafety ==
    /\ (last.op = "pop" /\ PreList.hash = PreList.emptyHash /\ PreData = <<>>) =>
           /\ last.ok
           /\ last.ret = innerProvable_empty
           /\ lists[last.obj].hash = lists[last.obj].emptyHash
           /\ DataOf(last.obj) = <<>>
    /\ (last.op = "popExn" /\ PreList.hash = PreList.emptyHash /\ PreData = <<>>) =>
           ~last.ok

C9_Witness ==
    /\ last.op = "popExn"
    /\ PreList.hash = PreList.emptyHash
    /\ PreData = <<>>
    /\ ~last.ok

\* C10: pop() never fails on a list reached from empty() or from(array) by push,
\* pushIf, pop, popIf and clone; on an empty list (hash = EMPTY_HASH) it returns the
\* empty placeholder and the list stays empty.
C10_PopNeverFails ==
    last.op = "pop" =>
        /\ last.ok
        /\ PreList.hash = PreList.emptyHash =>
               /\ last.ret = innerProvable_empty
               /\ lists[last.obj].hash = lists[last.obj].emptyHash

C10_Witness ==
    /\ last.op = "pop"
    /\ last.obj = 2
    /\ PreList.hash = PreList.emptyHash
    /\ PreData # <<>>

\* the calls that change a list
ListUpdates == {"push", "pushIf", "pop", "popIf", "popExn"}

\* C11: L.clone() has L's hash and an equal record and leaves L as it was; afterwards
\* no push, pushIf, pop, popIf or popExn on either of the two changes the hash or the
\* data of the other.
C11_CloneIsolation ==
    /\ (last.kind = "list" /\ last.op = "clone") =>
           /\ lists[2].hash = lists[1].hash
           /\ DataOf(2) = DataOf(1)
           /\ lists[1] = last.pre.lists[1]
           /\ DataOf(1) = last.pre.heap[last.pre.lists[1].data]
    /\ (last.kind = "list" /\ last.op \in ListUpdates /\ Len(last.pre.lists) = 2) =>
           LET other == 3 - last.obj
           IN  /\ lists[other] = last.pre.lists[other]
               /\ DataOf(other) = last.pre.heap[last.pre.lists[other].data]

C11_Witness ==
    /\ last.kind = "list"
    /\ last.op = "pop"
    /\ last.obj = 2
    /\ Len(last.pre.lists) = 2
    /\ Len(DataOf(1)) = Len(DataOf(2)) + 1

\* C14: popExn() fails exactly when the list is empty (hash = EMPTY_HASH); on a
\* non-empty list it succeeds with the effect of pop(): it returns the front element,
\* sets hash to the front node's previousHash and removes the front node from data.
C14_PopExnIsPop ==
    last.op = "popExn" =>
        /\ last.ok <=> (PreList.hash # PreList.emptyHash)
        /\ PreList.hash # PreList.emptyHash =>
               /\ PreData # <<>>
               /\ last.ret = PreData[1].element
               /\ lists[last.obj].hash = PreData[1].previousHash
               /\ DataOf(last.obj) = Tail(PreData)
               /\ pop(last.pre, last.obj) = Result(Mem, last.ret, TRUE)

C14_Witness ==
    /\ last.op = "popExn"
    /\ last.ok
    /\ Len(PreData) >= 2
    /\ lists[last.obj].hash # lists[last.obj].emptyHash

\* the record d chains right-to-left from the sentinel e up to the commitment h
Consistent(d, e, h) ==
    LET n == Len(d)
    IN  /\ n = 0 => h = e
        /\ n > 0 =>
               /\ d[n].previousHash = e
               /\ \A k \in 1 .. (n - 1) :
                      d[k].previousHash = nextHash(d[k + 1].previousHash, d[k + 1].element)
               /\ h = nextHash(d[1].previousHash, d[1].element)

\* C16: in every list state reached from empty() or from(array) by push, pushIf, pop,
\* popIf and clone, chaining data right-to-left from EMPTY_HASH reproduces hash, and
\* hash = EMPTY_HASH when data is empty.
C16_RecordConsistent ==
    Running =>
        \A i \in 1 .. Len(lists) : Consistent(DataOf(i), lists[i].emptyHash, lists[i].hash)

\* the calls on an iterator that move or inspect its position
IterCalls == {"next", "isAtEnd", "assertAtStart", "jumpToEnd", "jumpToEndIf"}

\* C20: next(), isAtEnd(), assertAtStart(), jumpToEnd() and jumpToEndIf() change neither
\* the iterator's hash nor its data record, nor the hash or data of the list it was
\* started from; only currentHash and currentIndex move.
C20_IteratorFrame ==
    (last.kind = "iter" /\ last.op \in IterCalls) =>
        /\ iters[last.obj].hash = last.pre.iters[last.obj].hash
        /\ iters[last.obj].data = last.pre.iters[last.obj].data
        /\ iters[last.obj].emptyHash = last.pre.iters[last.obj].emptyHash
        /\ heap = last.pre.heap
        /\ lists = last.pre.lists

C20_Witness ==
    /\ last.kind = "iter"
    /\ last.op = "next"
    /\ last.ok
    /\ iters[last.obj].currentIndex = last.pre.iters[last.obj].currentIndex + 1
    /\ iters[last.obj].currentHash # last.pre.iters[last.obj].currentHash
    /\ Len(lists) = 1

\* the iterator of the last call, before the call
PreIter == last.pre.iters[last.obj]
PreIterData == last.pre.heap[PreIter.data]

\* C12: assertAtStart() succeeds as long as no call has moved the iterator, so in
\* particular on an iterator fresh from startIterating()/from(); on an iterator over a
\* non-empty list it fails once a next() has returned a real element or jumpToEnd() or
\* jumpToEndIf(true) has been called.
C12_AssertAtStart ==
    (last.kind = "iter" /\ last.op = "assertAtStart") =>
        /\ trace = <<>> => last.ok
        /\ (trace # <<>> /\ PreIterData # <<>>) => ~last.ok

C12_Witness ==
    /\ last.kind = "iter"
    /\ last.op = "assertAtStart"
    /\ trace # <<>>
    /\ trace[1].op = "next"
    /\ Len(PreIterData) = 2
    /\ PreIter.currentIndex = 1
    /\ ~last.ok

\* C13: jumpToEnd() and jumpToEndIf(true) set currentIndex = data.length and
\* currentHash = EMPTY_HASH (the sentinel of the iterator's type), so isAtEnd() is true
\* and every later next() succeeds with the empty placeholder and stays at the end;
\* jumpToEndIf(false) leaves currentHash and currentIndex as they were; none of them
\* changes hash or data.
C13_JumpToEnd ==
    LET jumped == last.op = "jumpToEnd" \/ (last.op = "jumpToEndIf" /\ last.cond)
    IN  /\ (last.kind = "iter" /\ last.op \in {"jumpToEnd", "jumpToEndIf"}) =>
               /\ last.ok
               /\ iters[last.obj].hash = PreIter.hash
               /\ iters[last.obj].data = PreIter.data
               /\ heap = last.pre.heap
               /\ lists = last.pre.lists
        /\ (last.kind = "iter" /\ jumped) =>
               /\ iters[last.obj].currentIndex = Len(heap[iters[last.obj].data])
               /\ iters[last.obj].currentHash = iters[last.obj].emptyHash
               /\ isAtEnd(Mem, last.obj)
               /\ next(Mem, last.obj).ok
               /\ next(Mem, last.obj).ret = innerProvable_empty
        /\ (last.kind = "iter" /\ last.op = "jumpToEndIf" /\ ~last.cond) =>
               iters[last.obj] = PreIter
        /\ (last.kind = "iter" /\ last.op = "next" /\ isAtEnd(last.pre, last.obj)) =>
               /\ last.ok
               /\ last.ret = innerProvable_empty
               /\ isAtEnd(Mem, last.obj)
               /\ iters[last.obj].currentIndex = Len(heap[iters[last.obj].data])
        /\ (trace # <<>> /\ trace[1].op \in {"jumpToEnd", "jumpToEndIf"}) =>
               /\ isAtEnd(Mem, 1)
               /\ iters[1].currentIndex = Len(heap[iters[1].data])
               /\ last.op = "next" => (last.ok /\ last.ret = innerProvable_empty)

C13_Witness ==
    /\ last.kind = "iter"
    /\ last.op = "next"
    /\ last.ok
    /\ last.ret = innerProvable_empty
    /\ trace # <<>>
    /\ trace[1].op = "jumpToEndIf"
    /\ Len(heap[iters[1].data]) = 2
    /\ iters[1].currentIndex = 2
    /\ iters[1].hash # iters[1].currentHash

\* the elements of the nodes d[from .. Len(d)]
ElementsFrom(d, from) == [k \in 1 .. (Len(d) + 1 - from) |-> d[from + k - 1].element]

\* currentHash is the commitment of the unvisited suffix of the record, chained from e
SuffixInvariant(it, d, e) ==
    /\ it.currentIndex \in 0 .. Len(d)
    /\ it.currentHash = ChainHash(ElementsFrom(d, it.currentIndex + 1), e)
    /\ it.currentIndex = 0 => it.currentHash = it.hash
    /\ it.currentIndex = Len(d) => it.currentHash = e

\* C18: for an iterator made by from(array), or by startIterating() on a list built with
\* from and push, after any next(), jumpToEnd() and jumpToEndIf() calls currentHash is
\* the chain hash of data[currentIndex .. length-1] taken right-to-left from the
\* EMPTY_HASH of the type that built the record; at index 0 it is hash and at
\* index data.length it is EMPTY_HASH.
C18_IteratorSuffix ==
    Len(iters) = 1 =>
        SuffixInvariant(iters[1], heap[iters[1].data],
                        IF Len(lists) = 1 THEN lists[1].emptyHash ELSE iters[1].emptyHash)

\* C19: under next(), jumpToEnd() and jumpToEndIf(cond) on one iterator currentIndex
\* never decreases and stays within 0 .. data.length; next() moves it up by exactly one
\* when it is below data.length and leaves it at data.length otherwise.
C19_CurrentIndex ==
    /\ Len(iters) = 1 => iters[1].currentIndex \in 0 .. Len(heap[iters[1].data])
    /\ (last.kind = "iter" /\ last.op \in {"next", "jumpToEnd", "jumpToEndIf"}) =>
           iters[last.obj].currentIndex >= PreIter.currentIndex
    /\ (last.kind = "iter" /\ last.op = "next") =>
           iters[last.obj].currentIndex =
               IF PreIter.currentIndex < Len(PreIterData)
               THEN PreIter.currentIndex + 1
               ELSE Len(PreIterData)

C19_Witness ==
    /\ last.kind = "iter"
    /\ last.op = "next"
    /\ last.ok
    /\ Len(PreIterData) = 2
    /\ PreIter.currentIndex = 2
    /\ iters[last.obj].currentIndex = 2
    /\ trace # <<>>
    /\ trace[1].op = "next"

\* C17: with data replaced by arbitrary nodes, whenever pop(), popExn() or next()
\* completes without an assertion failure on a commitment c other than EMPTY_HASH, the
\* returned element e and the new commitment p satisfy c = nextHash(p, e); on
\* c = EMPTY_HASH pop() and next() succeed, return the empty placeholder and keep the
\* commitment at EMPTY_HASH whatever data contains.
C17_UntrustedRecord ==
    /\ (last.kind = "list" /\ last.op \in {"pop", "popExn"} /\ last.ok
            /\ PreList.hash # PreList.emptyHash) =>
           PreList.hash = nextHash(lists[last.obj].hash, last.ret)
    /\ (last.kind = "list" /\ last.op = "pop" /\ PreList.hash = PreList.emptyHash) =>
           /\ last.ok
           /\ last.ret = innerProvable_empty
           /\ lists[last.obj].hash = PreList.emptyHash
    /\ (last.kind = "iter" /\ last.op = "next" /\ last.ok
            /\ PreIter.currentHash # PreIter.emptyHash) =>
           PreIter.currentHash = nextHash(iters[last.obj].currentHash, last.ret)
    /\ (last.kind = "iter" /\ last.op = "next" /\ PreIter.currentHash = PreIter.emptyHash) =>
           /\ last.ok
           /\ last.ret = innerProvable_empty
           /\ iters[last.obj].currentHash = PreIter.emptyHash

\* a record of one node that is not the end of a chain: the prover's, accepted by pop
C17_Witness ==
    /\ last.kind = "list"
    /\ last.op = "pop"
    /\ last.ok
    /\ PreList.hash # PreList.emptyHash
    /\ Len(PreData) = 1
    /\ PreData[1].previousHash # PreList.emptyHash

\* the last call was made on an instance of a base class
OnBaseClass ==
    \/ last.kind = "list" /\ ~initialized(PreList.emptyHash)
    \/ last.kind = "iter" /\ ~initialized(PreIter.emptyHash)

\* C15: on an instance of the base class, not produced by create(), each of isEmpty,
\* push, pushIf, pop, popExn, popIf, next, isAtEnd, jumpToEnd and jumpToEndIf fails with
\* a 'not initialized' error before changing hash, data, currentHash or currentIndex.
C15_UninitializedType ==
    (last.op \in ListUpdates \cup {"isEmpty", "next", "isAtEnd", "jumpToEnd", "jumpToEndIf"}
        /\ OnBaseClass) =>
        /\ ~last.ok
        /\ last.ret = NotInitializedError
        /\ Mem = last.pre

\* what the next k calls of next() on iterator j return, up to the end or a failure
RECURSIVE RemainingFrom(_, _, _)
RemainingFrom(m, j, k) ==
    IF k = 0 \/ isAtEnd(m, j) THEN <<>>
    ELSE LET r == next(m, j)
         IN  IF r.ok THEN <<[ret |-> r.ret, ok |-> TRUE]>> \o RemainingFrom(r.m, j, k - 1)
             ELSE <<[ret |-> r.ret, ok |-> FALSE]>>

Remaining(m, j) == RemainingFrom(m, j, Len(m.heap[m.iters[j].data]) + 1)

\* C21: it.clone() has it's hash, currentHash and currentIndex and an equal record in
\* storage of its own, and leaves it as it was; afterwards next(), jumpToEnd() and
\* jumpToEndIf() on either of the two leave the other's currentHash, currentIndex and
\* data unchanged, and the other still yields the same remaining values.
C21_IteratorCloneIsolation ==
    /\ (last.kind = "iter" /\ last.op = "clone") =>
           /\ last.ok
           /\ iters[2].hash = iters[1].hash
           /\ iters[2].currentHash = iters[1].currentHash
           /\ iters[2].currentIndex = iters[1].currentIndex
           /\ heap[iters[2].data] = heap[iters[1].data]
           /\ iters[2].data # iters[1].data
           /\ iters[1] = last.pre.iters[1]
           /\ heap[iters[1].data] = last.pre.heap[iters[1].data]
           /\ Remaining(Mem, 2) = Remaining(Mem, 1)
    /\ (last.kind = "iter" /\ last.op \in {"next", "jumpToEnd", "jumpToEndIf"}
            /\ Len(last.pre.iters) = 2) =>
           LET other == 3 - last.obj
           IN  /\ iters[other] = last.pre.iters[other]
               /\ heap[iters[other].data] = last.pre.heap[iters[other].data]
               /\ Remaining(Mem, other) = Remaining(last.pre, other)

\* the clone was taken after one next() and then walked on; the source stays behind
C21_Witness ==
    /\ last.kind = "iter"
    /\ last.op = "next"
    /\ last.ok
    /\ last.obj = 2
    /\ Len(last.pre.iters) = 2
    /\ Len(heap[iters[1].data]) = 2
    /\ iters[1].currentIndex = 1
    /\ iters[2].currentIndex = 2
    /\ Len(Remaining(Mem, 1)) = 1

\* C22: under push, pushIf, pop, popIf and popExn from empty() or from(array) the list
\* is a LIFO stack: pop(), popIf() and popExn() on a non-empty list return the top of
\* the reference stack, isEmpty() is true exactly when the reference stack is empty,
\* and data[0], when present, is the node of the reference stack's top.
C22_StackRefinement ==
    Running =>
        /\ (last.op \in {"pop", "popIf", "popExn"} /\ ref.before # <<>>) =>
               last.ret = Head(ref.before)
        /\ isEmpty(Mem, 1) <=> (ref.stack = <<>>)
        /\ last.op = "isEmpty" => (last.ret = 1 <=> ref.stack = <<>>)
        /\ (DataOf(1) # <<>>) <=> (ref.stack # <<>>)
        /\ ref.stack # <<>> =>
               DataOf(1)[1] = WithHash(ChainHash(Tail(ref.stack), lists[1].emptyHash),
                                       Head(ref.stack))

\* C23: for an iterator made by from(array) with n elements isAtEnd() is false after
\* fewer than n calls of next() and true after n; the first n calls return the array's
\* elements, and every later next() succeeds with the empty placeholder and leaves
\* currentHash = EMPTY_HASH and currentIndex = data.length.
C23_EndIsAbsorbing ==
    LET n == Len(input)
        k == Len(trace)
        it == iters[1]
    IN  /\ \A c \in 1 .. k :
               /\ trace[c].op = "next"
               /\ trace[c].ok
               /\ trace[c].ret = IF c <= n THEN input[c] ELSE innerProvable_empty
        /\ k < n => ~isAtEnd(Mem, 1)
        /\ k >= n =>
               /\ isAtEnd(Mem, 1)
               /\ it.currentHash = it.emptyHash
               /\ it.currentIndex = Len(heap[it.data])
        /\ k <= n => it.currentIndex = k
        /\ last.op = "isAtEnd" => (last.ret = 1 <=> k >= n)

C23_Witness ==
    /\ Len(input) = MaxArray
    /\ Len(trace) = Len(input) + MaxPastEnd
    /\ last.op = "next"
    /\ last.ok
    /\ iters[1].emptyHash = customEmptyHash
    /\ input[MaxArray] # innerProvable_empty

\* C24: from([v0..v(n-1)]) yields the same hash and, node by node, the same record as
\* empty() followed by push(v(n-1)), ..., push(v0); and two calls of from with the same
\* array on the same type yield the same commitment and record.
C24_FromIsPushes ==
    /\ Len(lists) >= 2 =>
           /\ Len(DataOf(1)) = Len(input)
           /\ lists[2].hash = lists[1].hash
           /\ Len(DataOf(2)) = Len(DataOf(1))
           /\ \A k \in 1 .. Len(DataOf(2)) : DataOf(2)[k] = DataOf(1)[k]
           /\ lists[2].emptyHash = lists[1].emptyHash
    /\ Len(lists) = 3 =>
           /\ lists[3].hash = lists[2].hash
           /\ DataOf(3) = DataOf(2)

C24_Witness ==
    /\ Len(lists) = 3
    /\ Len(input) = MaxArray
    /\ input[1] # input[MaxArray]
    /\ Len(DataOf(2)) = MaxArray
    /\ DataOf(1)[1].element = input[1]
    /\ lists[1].emptyHash = customEmptyHash

====
